---- MODULE Spec2Model ----
(***************************************************************************)
(* libnmea: sentence classification (nmea_get_message_type) and dispatch   *)
(* (nmea_parse_message) of src/lib/libnmea.c.                              *)
(*                                                                         *)
(* Memory is modelled as C sees it: a character buffer is a sequence of    *)
(* bytes (one-character strings, NUL for the terminator); a pointer names  *)
(* a region ("caller" for the caller's sentence buffers, "heap" for        *)
(* malloc'ed blocks, "null") and an index in it.                           *)
(***************************************************************************)
EXTENDS Integers, Sequences, FiniteSets, TLC

(* ---------------------------------------------------------------- bounds *)
\* Longest payload (characters after the six-character head) of an input.
MaxPayload == 2
\* Number of calls in flight in the concurrent specification.
NCalls == 2

(* ------------------------------------------------------------- constants *)
\* Number of characters strncmp compares (libnmea.c:57).
PrefixLen == 6
\* Extra bytes the scratch copy gets beyond strlen(message) (libnmea.c:82).
CopySlack == 2
\* sizeof(nmea_message_type_t): an enumeration is stored as a 4-byte int.
EnumSize == 4

NUL == "NUL"

\* nmea_message_type_t as libnmea.c uses it.
kNMEAMessageGGA == "GGA"
kNMEAMessageGSA == "GSA"
kNMEAMessageGSV == "GSV"
kNMEAMessageVTG == "VTG"
kNMEAMessageUnknown == "Unknown"
Tags == {kNMEAMessageGGA, kNMEAMessageGSA, kNMEAMessageGSV, kNMEAMessageVTG,
         kNMEAMessageUnknown}

\* nmea_error_t: the one code the dispatcher itself raises, and the value a
\* caller's slot holds before the call.
kNMEAErrorTypeNotUnderstood == "TypeNotUnderstood"
ErrorUntouched == "untouched"

(* ------------------------------------------------------------- C strings *)
\* The bytes of a string literal: its characters and the terminating NUL.
CStr(chars) == chars \o <<NUL>>

\* Character codes (ASCII) of the bytes the model uses.
Ascii(c) ==
  CASE c = NUL -> 0
    [] c = "$" -> 36
    [] c = "," -> 44
    [] c = "1" -> 49
    [] c = "A" -> 65
    [] c = "F" -> 70
    [] c = "G" -> 71
    [] c = "P" -> 80
    [] c = "S" -> 83
    [] c = "T" -> 84
    [] c = "V" -> 86
    [] c = "X" -> 88
    [] c = "x" -> 120

\* strlen: the number of bytes before the first NUL.
RECURSIVE StrlenFrom(_, _)
StrlenFrom(buf, k) ==
  IF buf[k] = NUL THEN k - 1 ELSE StrlenFrom(buf, k + 1)

strlen(buf) == StrlenFrom(buf, 1)

\* strncpy(dest, src, n): the n bytes written to dest: the characters of src up
\* to its NUL, then NUL padding.
strncpy(src, n) ==
  [k \in 1..n |-> IF k <= strlen(src) THEN src[k] ELSE NUL]

\* A mutant of strncmp: the comparison also stops, with "equal", where the
\* first string ends (it compares min(strlen(s1), n) characters).
RECURSIVE StrncmpPrefixFrom(_, _, _, _)
StrncmpPrefixFrom(s1, s2, n, k) ==
  IF k > n THEN 0
  ELSE IF s1[k] = NUL THEN 0
  ELSE IF s1[k] # s2[k] THEN Ascii(s1[k]) - Ascii(s2[k])
  ELSE StrncmpPrefixFrom(s1, s2, n, k + 1)

strncmp_prefix(s1, s2, n) == StrncmpPrefixFrom(s1, s2, n, 1)

\* strncmp(s1, s2, n): compares at most n bytes, stopping after a NUL; the
\* difference of the first differing bytes, or 0.
RECURSIVE StrncmpFrom(_, _, _, _)
StrncmpFrom(s1, s2, n, k) ==
  IF k > n THEN 0
  ELSE IF s1[k] # s2[k] THEN Ascii(s1[k]) - Ascii(s2[k])
  ELSE IF s1[k] = NUL THEN 0
  ELSE StrncmpFrom(s1, s2, n, k + 1)

strncmp(s1, s2, n) == StrncmpFrom(s1, s2, n, 1)

(* -------------------------------------------------------------- registry *)
\* A null char pointer in the table is the empty byte sequence (a string
\* always holds at least its NUL).
NullStr == <<>>

type_map ==
  << [nmea |-> CStr(<<"$", "G", "P", "G", "G", "A">>), type |-> kNMEAMessageGGA],
     [nmea |-> CStr(<<"$", "G", "P", "G", "S", "A">>), type |-> kNMEAMessageGSA],
     [nmea |-> CStr(<<"$", "G", "P", "G", "S", "V">>), type |-> kNMEAMessageGSV],
     [nmea |-> CStr(<<"$", "G", "P", "V", "T", "F">>), type |-> kNMEAMessageVTG],
     [nmea |-> NullStr, type |-> kNMEAMessageUnknown] >>

\* A mutant of the lookup loop: a match returns the type of the following entry.
RECURSIVE GetTypeNextFrom(_, _)
GetTypeNextFrom(message, i) ==
  IF type_map[i].nmea = NullStr THEN kNMEAMessageUnknown
  ELSE IF strncmp(message, type_map[i].nmea, PrefixLen) = 0 THEN type_map[i + 1].type
  ELSE GetTypeNextFrom(message, i + 1)

\* The do-while loop of nmea_get_message_type, from table index i.
RECURSIVE GetTypeFrom(_, _)
GetTypeFrom(message, i) ==
  IF type_map[i].nmea = NullStr THEN kNMEAMessageUnknown
  ELSE IF strncmp(message, type_map[i].nmea, PrefixLen) = 0 THEN type_map[i].type
  ELSE GetTypeFrom(message, i + 1)

nmea_get_message_type_off_by_one(message) == GetTypeNextFrom(message, 1)

nmea_get_message_type(message) == GetTypeFrom(message, 1)

(* -------------------------------------------------------------- decoders *)
\* parse_gga, parse_gsa, parse_gsv and parse_vtg are declared extern; their
\* bodies follow the decoder contract: a decoder tokenizes the buffer it is
\* given in place, returns a record it allocated or no record, and on failure
\* writes its own code through the error pointer when that is not null.
Decoders == {"parse_gga", "parse_gsa", "parse_gsv", "parse_vtg"}

\* In-place tokenizing: every field separator of the string becomes a NUL.
DecoderTokenize(buf) ==
  [k \in DOMAIN buf |-> IF k <= strlen(buf) /\ buf[k] = "," THEN NUL ELSE buf[k]]

\* A payload is malformed when one of its characters is the invalid "x".
DecoderAccepts(buf) ==
  \A k \in 1..strlen(buf) : buf[k] # "x"

\* The number of fields the decoder reads: one per separator.
DecoderFields(buf) ==
  Cardinality({k \in 1..strlen(buf) : buf[k] = ","})

\* The decoder's private error code.
DecoderError(dec) == <<"DecoderError", dec>>

(* ---------------------------------------------------------------- memory *)
NULL == [region |-> "null", idx |-> 0]
CallerPtr(c) == [region |-> "caller", idx |-> c]
HeapPtr(b) == [region |-> "heap", idx |-> b]

\* A nmea_message_t pointer: null, or the record it points to.
NullMsg == [null |-> TRUE, type |-> "-", fields |-> 0]
Msg(type, fields) == [null |-> FALSE, type |-> type, fields |-> fields]

\* A heap block: whether it is in use, and the bytes last written to it.
Unallocated == [alloc |-> FALSE, data |-> <<>>]

Blocks == 1..NCalls

VARIABLES
  ndebug,     \* the build: TRUE when assert() is compiled out (NDEBUG)
  optimized,  \* the build: TRUE when compiled with optimization (-O2)
  map0,       \* the platform: TRUE when address 0 is mapped writable
  page0,      \* the bytes at address 0 (meaningful when map0)
  layout,     \* the header: offset of .type and bytes of each enumerator
  proc,       \* "running", or the signal that ended the process
  op,         \* per call: the public function called
  callerBuf,  \* per call: the caller's sentence buffer
  orig,       \* per call: the sentence as the caller passed it (history)
  outError,   \* per call: the outError argument (a pointer, or NULL)
  errSlot,    \* per call: the content of the caller's error slot
  heap,       \* malloc'ed blocks
  pc,         \* per call: position in the function
  copy,       \* per call: local `copy`
  copied,     \* per call: bytes strncpy has written so far through a null copy
  t,          \* per call: local `t`
  parsed,     \* per call: local `parsed`
  ret,        \* per call: value returned by nmea_parse_message
  retType,    \* per call: value returned by nmea_get_message_type
  invoked     \* per call: the decoder invocations made (history)

\* The build and the platform: fixed for a run.
env == <<ndebug, optimized, map0>>

vars == <<env, page0, layout, proc, op, callerBuf, orig, outError, errSlot,
          heap, pc, copy, copied, t, parsed, ret, retType, invoked>>

Calls == DOMAIN pc

(* ---------------------------------------------------------------- inputs *)
SeqsUpTo(S, n) == UNION {[1..k -> S] : k \in 0..n}

Registered == {SubSeq(type_map[i].nmea, 1, PrefixLen) : i \in 1..(Len(type_map) - 1)}
BaseHeads == Registered \cup {<<"$", "G", "P", "V", "T", "G">>}
HeadChars == {"$", "G", "P", "A", "S", "V", "T", "F", "X"}
PayloadChars == {",", "1", "x"}

\* Heads: the registered prefixes and the conventional VTG identifier, each
\* also truncated and with one character replaced.
Heads ==
  BaseHeads
  \cup {SubSeq(h, 1, k) : h \in BaseHeads, k \in 0..(PrefixLen - 1)}
  \cup {[h EXCEPT ![p] = ch] : h \in BaseHeads, p \in 1..PrefixLen, ch \in HeadChars}

\* Sentences: every payload after the registered prefixes and "$GPVTG", the
\* payloads one character shorter after the other heads.
Sentences ==
  {CStr(h \o p) : h \in BaseHeads, p \in SeqsUpTo(PayloadChars, MaxPayload)}
  \cup {CStr(h \o p) : h \in Heads, p \in SeqsUpTo(PayloadChars, MaxPayload - 1)}

\* The distinct sentences concurrent calls are given.
ConcSentences ==
  << CStr(<<"$", "G", "P", "G", "G", "A", ",", "1">>),
     CStr(<<"$", "G", "P", "G", "S", "A", ",", "x">>),
     CStr(<<"$", "G", "P", "X", "S", "V", ",", "1">>),
     CStr(<<"$", "G", "P", "V", "T", "F", ",", ",">>) >>

\* The bytes of the page at address 0 that a call can reach: the longest
\* scratch copy.
PageBytes == PrefixLen + MaxPayload + CopySlack

\* libnmea.h fixes where .type lies in a record and the value of each
\* enumerator; libnmea.c relies on neither. A run has one header: the model
\* settles the offset, and the bytes of an enumerator, when they are first
\* stored through a null pointer, and keeps them from then on.
\* A byte of an enumerator is zero or not ("#": any non-zero byte).
EnumByteValues == {NUL, "#"}
EnumReps == [1..EnumSize -> EnumByteValues]
\* .type is the leading field of the record, or follows one int-sized field.
TypeOffsets == {0, EnumSize}
NoLayout == [off |-> -1, rep |-> [g \in Tags |-> <<>>]]

Ops == {"classify", "parse"}

Setup(msgs, ops, slots, nd, opt, m0) ==
  /\ ndebug = nd
  /\ optimized = opt
  /\ map0 = m0
  /\ page0 = [k \in 1..PageBytes |-> NUL]
  /\ layout = NoLayout
  /\ proc = "running"
  /\ op = ops
  /\ callerBuf = msgs
  /\ orig = msgs
  /\ outError = [c \in DOMAIN msgs |-> IF slots[c] THEN CallerPtr(c) ELSE NULL]
  /\ errSlot = [c \in DOMAIN msgs |-> ErrorUntouched]
  /\ heap = [b \in Blocks |-> Unallocated]
  /\ pc = [c \in DOMAIN msgs |-> "entry"]
  /\ copy = [c \in DOMAIN msgs |-> NULL]
  /\ copied = [c \in DOMAIN msgs |-> 0]
  /\ t = [c \in DOMAIN msgs |-> "-"]
  /\ parsed = [c \in DOMAIN msgs |-> NullMsg]
  /\ ret = [c \in DOMAIN msgs |-> NullMsg]
  /\ retType = [c \in DOMAIN msgs |-> "-"]
  /\ invoked = [c \in DOMAIN msgs |-> <<>>]

\* nmea_get_message_type takes no error slot.
SlotChoices(o) == IF o = "parse" THEN BOOLEAN ELSE {FALSE}

\* One call, on any sentence.
Init ==
  \E s \in Sentences, o \in Ops, nd \in BOOLEAN, opt \in BOOLEAN, m0 \in BOOLEAN :
    \E e \in SlotChoices(o) :
      Setup([c \in {1} |-> s], [c \in {1} |-> o], [c \in {1} |-> e], nd, opt, m0)

\* NCalls calls in flight, on distinct sentences.
InitConc ==
  \E ix \in [1..NCalls -> 1..Len(ConcSentences)], ops \in [1..NCalls -> Ops],
     e \in BOOLEAN, nd \in BOOLEAN, opt \in BOOLEAN, m0 \in BOOLEAN :
    /\ \A c, d \in 1..NCalls : c < d => ix[c] < ix[d]
    /\ Setup([c \in 1..NCalls |-> ConcSentences[ix[c]]], ops,
             [c \in 1..NCalls |-> e /\ ops[c] = "parse"], nd, opt, m0)

(* ----------------------------------------------------------- memory access *)
\* The bytes a pointer points to. A null pointer points to address 0.
Load(p) ==
  CASE p.region = "caller" -> callerBuf[p.idx]
    [] p.region = "heap" -> heap[p.idx].data
    [] OTHER -> page0

\* The page at address 0 after data is written off bytes from its start.
WritePage0At(off, data) ==
  [k \in 1..PageBytes |->
     IF off < k /\ k <= off + Len(data) THEN data[k - off] ELSE page0[k]]

\* The page at address 0 after data is written at its start.
WritePage0(data) == WritePage0At(0, data)

\* Writing data at the start of the buffer a pointer points to.
Store(p, data) ==
  CASE p.region = "caller" ->
         /\ callerBuf' = [callerBuf EXCEPT ![p.idx] = data]
         /\ UNCHANGED <<heap, page0>>
    [] p.region = "heap" ->
         /\ heap' = [heap EXCEPT ![p.idx].data = data]
         /\ UNCHANGED <<callerBuf, page0>>
    [] OTHER ->
         /\ page0' = WritePage0(data)
         /\ UNCHANGED <<callerBuf, heap>>

\* malloc returns a block that is not in use (blocks are interchangeable: the
\* lowest free one), or NULL when the allocator has no memory to give.
malloc(h) ==
  {NULL} \cup
  {HeapPtr(b) : b \in {x \in Blocks : ~h[x].alloc /\ \A y \in Blocks : ~h[y].alloc => x <= y}}

(* ------------------------------------------------- nmea_get_message_type *)
GetMessageType(c) ==
  /\ proc = "running"
  /\ op[c] = "classify"
  /\ pc[c] = "entry"
  /\ retType' = [retType EXCEPT ![c] = nmea_get_message_type(callerBuf[c])]
  /\ pc' = [pc EXCEPT ![c] = "done"]
  /\ UNCHANGED <<env, page0, layout, copied, proc, op, callerBuf, orig,
                 outError, errSlot, heap, copy, t, parsed, ret, invoked>>

(* ---------------------------------------------------- nmea_parse_message *)
\* len = strlen(message); copy = malloc(len + 2); strncpy(copy, message, len + 2).
\* malloc's result is not checked: when it is NULL, strncpy writes to address
\* 0, which ends the process with SIGSEGV unless that address is mapped.
\* A block malloc returned is the call's own, so the copy into it is one step;
\* the bytes at address 0 are every call's, so the copy there is CopyByte's.
CopyMessage(c) ==
  /\ proc = "running"
  /\ op[c] = "parse"
  /\ pc[c] = "entry"
  /\ \E p \in malloc(heap) :
       LET bytes == strncpy(callerBuf[c], strlen(callerBuf[c]) + CopySlack)
       IN /\ copy' = [copy EXCEPT ![c] = p]
          /\ IF p # NULL
             THEN /\ heap' = [heap EXCEPT ![p.idx] = [alloc |-> TRUE, data |-> bytes]]
                  /\ pc' = [pc EXCEPT ![c] = "classify"]
                  /\ UNCHANGED proc
             ELSE IF map0
             THEN /\ pc' = [pc EXCEPT ![c] = "copying"]
                  /\ UNCHANGED <<heap, proc>>
             ELSE /\ proc' = "SIGSEGV"
                  /\ UNCHANGED <<heap, pc>>
  /\ UNCHANGED <<env, page0, layout, copied, op, callerBuf, orig, outError,
                 errSlot, t, parsed, ret, retType, invoked>>

\* strncpy(copy, message, len + 2) with copy null and address 0 mapped: the
\* next byte of the len + 2 is written to the page at address 0.
CopyByte(c) ==
  /\ proc = "running"
  /\ pc[c] = "copying"
  /\ LET n == strlen(callerBuf[c]) + CopySlack
         bytes == strncpy(callerBuf[c], n)
         k == copied[c] + 1
     IN /\ page0' = WritePage0At(copied[c], <<bytes[k]>>)
        /\ copied' = [copied EXCEPT ![c] = k]
        /\ pc' = [pc EXCEPT ![c] = IF k = n THEN "classify" ELSE "copying"]
  /\ UNCHANGED <<env, layout, proc, op, callerBuf, orig, outError, errSlot,
                 heap, copy, t, parsed, ret, retType, invoked>>

\* t = nmea_get_message_type(message)
Classify(c) ==
  /\ proc = "running"
  /\ pc[c] = "classify"
  /\ t' = [t EXCEPT ![c] = nmea_get_message_type(callerBuf[c])]
  /\ pc' = [pc EXCEPT ![c] = "switch"]
  /\ UNCHANGED <<env, page0, layout, copied, proc, op, callerBuf, orig,
                 outError, errSlot, heap, copy, parsed, ret, retType, invoked>>

\* A mutant of the switch: the GSA and GSV cases call each other's decoder.
SwitchDecoderSwapped(tag) ==
  CASE tag = kNMEAMessageGGA -> "parse_gga"
    [] tag = kNMEAMessageGSA -> "parse_gsv"
    [] tag = kNMEAMessageGSV -> "parse_gsa"
    [] tag = kNMEAMessageVTG -> "parse_vtg"
    [] OTHER -> "default"

\* The case labels of the switch: the decoder each tag is routed to.
SwitchDecoder(tag) ==
  CASE tag = kNMEAMessageGGA -> "parse_gga"
    [] tag = kNMEAMessageGSA -> "parse_gsa"
    [] tag = kNMEAMessageGSV -> "parse_gsv"
    [] tag = kNMEAMessageVTG -> "parse_vtg"
    [] OTHER -> "default"

\* A call parsed = (nmea_message_t *) dec(buf, outError[c]). The type the
\* decoder itself leaves in the record it returns is any tag.
CallDecoder(c, dec, buf) ==
  LET before == Load(buf)
      ok == DecoderAccepts(before)
  IN /\ Store(buf, DecoderTokenize(before))
     /\ \E self \in (IF ok THEN Tags ELSE {"-"}) :
          /\ parsed' = [parsed EXCEPT ![c] =
                          IF ok THEN Msg(self, DecoderFields(before)) ELSE NullMsg]
          /\ invoked' = [invoked EXCEPT ![c] =
                           Append(@, [dec |-> dec, msg |-> buf,
                                      outErr |-> outError[c], selfType |-> self])]
     /\ errSlot' = [errSlot EXCEPT ![c] =
                      IF ~ok /\ outError[c] # NULL THEN DecoderError(dec) ELSE @]

\* The switch statement, with buf the buffer handed to the decoders.
Route(c, buf) ==
  /\ proc = "running"
  /\ pc[c] = "switch"
  /\ IF SwitchDecoder(t[c]) # "default"
     THEN CallDecoder(c, SwitchDecoder(t[c]), buf)
     ELSE /\ errSlot' = [errSlot EXCEPT ![c] =
                           IF outError[c] # NULL THEN kNMEAErrorTypeNotUnderstood ELSE @]
          /\ parsed' = [parsed EXCEPT ![c] = NullMsg]
          /\ UNCHANGED <<callerBuf, heap, page0, invoked>>
  /\ pc' = [pc EXCEPT ![c] = "assert"]
  /\ UNCHANGED <<env, layout, copied, proc, op, orig, outError, copy, t, ret,
                 retType>>

\* A mutant of the switch: the decoders are handed the caller's buffer.
DispatchOnMessage(c) == Route(c, CallerPtr(c))

\* switch(t) { ... parse_xxx(copy, outError) ... }
Dispatch(c) == Route(c, copy[c])

\* assert(parsed): aborts the process unless compiled out.
AssertParsed(c) ==
  /\ proc = "running"
  /\ pc[c] = "assert"
  /\ IF parsed[c].null /\ ~ndebug
     THEN /\ proc' = "SIGABRT"
          /\ UNCHANGED pc
     ELSE /\ pc' = [pc EXCEPT ![c] = "free"]
          /\ UNCHANGED proc
  /\ UNCHANGED <<env, page0, layout, copied, op, callerBuf, orig, outError,
                 errSlot, heap, copy, t, parsed, ret, retType, invoked>>

\* free(copy); free(NULL) does nothing.
FreeCopy(c) ==
  /\ proc = "running"
  /\ pc[c] = "free"
  /\ heap' = IF copy[c] # NULL
             THEN [heap EXCEPT ![copy[c].idx].alloc = FALSE]
             ELSE heap
  /\ pc' = [pc EXCEPT ![c] = "stamp"]
  /\ UNCHANGED <<env, page0, layout, copied, proc, op, callerBuf, orig,
                 outError, errSlot, copy, t, parsed, ret, retType, invoked>>

\* A mutant of the stamp: the record keeps the decoder's own tag.
StampTypeSkipped(rec, tag) == rec

\* parsed->type = t
StampType(rec, tag) == [rec EXCEPT !.type = tag]

\* The offsets .type can have, and the bytes tag can have, under header l.
\* Enumerators differ from one another.
Offsets(l) == IF l.off = -1 THEN TypeOffsets ELSE {l.off}
Reps(l, tag) ==
  IF l.rep[tag] # <<>>
  THEN {l.rep[tag]}
  ELSE {r \in EnumReps : \A g \in Tags : l.rep[g] # r}

\* parsed->type = t. Through a null pointer the store is undefined. Where
\* address 0 is not mapped the process takes SIGSEGV. Where it is, the store
\* lands in page 0, at the offset of .type; an optimized build has a trap
\* instruction after the store on the default path of the switch, where
\* parsed is a constant null pointer, and every other build goes on to return
\* the null pointer.
Stamp(c) ==
  /\ proc = "running"
  /\ pc[c] = "stamp"
  /\ IF ~parsed[c].null
     THEN /\ parsed' = [parsed EXCEPT ![c] = StampType(@, t[c])]
          /\ pc' = [pc EXCEPT ![c] = "return"]
          /\ UNCHANGED <<proc, page0, layout>>
     ELSE /\ UNCHANGED parsed
          /\ IF ~map0
             THEN /\ proc' = "SIGSEGV"
                  /\ UNCHANGED <<pc, page0, layout>>
             ELSE /\ \E off \in Offsets(layout), bytes \in Reps(layout, t[c]) :
                       /\ page0' = WritePage0At(off, bytes)
                       /\ layout' = [off |-> off,
                                     rep |-> [layout.rep EXCEPT ![t[c]] = bytes]]
                  /\ pc' = [pc EXCEPT ![c] =
                              IF optimized /\ SwitchDecoder(t[c]) = "default"
                              THEN "trap" ELSE "return"]
                  /\ UNCHANGED proc
  /\ UNCHANGED <<env, copied, op, callerBuf, orig, outError, errSlot, heap,
                 copy, t, ret, retType, invoked>>

\* The trap instruction that follows the null store in an optimized build:
\* the process takes SIGILL.
Trap(c) ==
  /\ proc = "running"
  /\ pc[c] = "trap"
  /\ proc' = "SIGILL"
  /\ UNCHANGED <<env, page0, layout, copied, op, callerBuf, orig, outError,
                 errSlot, heap, pc, copy, t, parsed, ret, retType, invoked>>

\* return parsed
Return(c) ==
  /\ proc = "running"
  /\ pc[c] = "return"
  /\ ret' = [ret EXCEPT ![c] = parsed[c]]
  /\ pc' = [pc EXCEPT ![c] = "done"]
  /\ UNCHANGED <<env, page0, layout, copied, proc, op, callerBuf, orig,
                 outError, errSlot, heap, copy, t, parsed, retType, invoked>>

Next ==
  \/ \E c \in Calls : GetMessageType(c)
  \/ \E c \in Calls : CopyMessage(c)
  \/ \E c \in Calls : CopyByte(c)
  \/ \E c \in Calls : Classify(c)
  \/ \E c \in Calls : Dispatch(c)
  \/ \E c \in Calls : AssertParsed(c)
  \/ \E c \in Calls : FreeCopy(c)
  \/ \E c \in Calls : Stamp(c)
  \/ \E c \in Calls : Trap(c)
  \/ \E c \in Calls : Return(c)

Spec == Init /\ [][Next]_vars

SpecConc == InitConc /\ [][Next]_vars

(* ---------------------------------------------------------------- claims *)
\* The sentence starts with the six characters of prefix.
HasPrefix(buf, prefix) ==
  /\ strlen(buf) >= PrefixLen
  /\ SubSeq(buf, 1, PrefixLen) = prefix

EntryPrefix(i) == SubSeq(type_map[i].nmea, 1, PrefixLen)
Entries == 1..(Len(type_map) - 1)
Recognized == {kNMEAMessageGGA, kNMEAMessageGSA, kNMEAMessageGSV, kNMEAMessageVTG}

\* The call has classified its sentence, and the tag it got.
Classified(c) ==
  \/ op[c] = "classify" /\ pc[c] = "done"
  \/ op[c] = "parse" /\ pc[c] \notin {"entry", "copying", "classify"}
TagOf(c) == IF op[c] = "classify" THEN retType[c] ELSE t[c]

\* The call is past its switch statement.
Routed(c) == op[c] = "parse" /\ pc[c] \notin {"entry", "copying", "classify", "switch"}

\* The content the caller's error slot must have after a failure with code.
SlotAfter(c, code) == IF outError[c] # NULL THEN code ELSE ErrorUntouched

\* C1: a recognized sentence whose decoder fails makes nmea_parse_message
\* return no record, with the decoder's code left in the caller's slot, and
\* the process is never terminated abnormally.
C1_DecoderFailureReturnsNoRecord ==
  \A c \in Calls :
    (Routed(c) /\ invoked[c] # <<>> /\ parsed[c].null) =>
      /\ proc = "running"
      /\ pc[c] = "done" =>
           /\ ret[c].null
           /\ errSlot[c] = SlotAfter(c, DecoderError(invoked[c][1].dec))

\* C2: a sentence whose first six characters match no registry entry makes
\* nmea_parse_message return no record, with TypeNotUnderstood in the error
\* slot when one is supplied and nothing written otherwise.
C2_UnknownReturnsNoRecord ==
  \A c \in Calls :
    (Routed(c) /\ \A i \in Entries : ~HasPrefix(orig[c], EntryPrefix(i))) =>
      /\ proc = "running"
      /\ pc[c] = "done" =>
           /\ ret[c].null
           /\ errSlot[c] = SlotAfter(c, kNMEAErrorTypeNotUnderstood)

\* C3: every record nmea_parse_message returns carries the tag that
\* nmea_get_message_type computes for the input sentence, whatever tag the
\* decoder put in it, and that tag is never Unknown.
C3_ReturnedTagIsClassifiedTag ==
  \A c \in Calls :
    (op[c] = "parse" /\ pc[c] = "done" /\ ~ret[c].null) =>
      /\ ret[c].type = nmea_get_message_type(orig[c])
      /\ ret[c].type # kNMEAMessageUnknown

\* A record was returned whose decoder had left another tag in it.
C3_Witness ==
  \E c \in Calls :
    /\ op[c] = "parse" /\ pc[c] = "done" /\ ~ret[c].null
    /\ invoked[c][1].selfType = kNMEAMessageUnknown
    /\ ret[c].type = kNMEAMessageGSA

\* C4: a sentence whose first six characters equal the prefix of a registry
\* entry is classified with that entry's tag, whatever follows the prefix.
C4_RegisteredPrefixClassified ==
  \A c \in Calls :
    Classified(c) =>
      \A i \in Entries :
        HasPrefix(orig[c], EntryPrefix(i)) => TagOf(c) = type_map[i].type

\* nmea_get_message_type returned GSV for "$GPGSV" followed by a payload.
C4_Witness ==
  \E c \in Calls :
    /\ op[c] = "classify" /\ pc[c] = "done"
    /\ HasPrefix(orig[c], <<"$", "G", "P", "G", "S", "V">>)
    /\ strlen(orig[c]) > PrefixLen
    /\ retType[c] = kNMEAMessageGSV

\* C5: a sentence whose first six characters equal no registered prefix
\* (a sentence shorter than six characters included) is classified Unknown.
C5_UnregisteredIsUnknown ==
  \A c \in Calls :
    (Classified(c) /\ \A i \in Entries : ~HasPrefix(orig[c], EntryPrefix(i))) =>
      TagOf(c) = kNMEAMessageUnknown

\* nmea_get_message_type returned Unknown for the five characters "$GPGG".
C5_Witness ==
  \E c \in Calls :
    /\ op[c] = "classify" /\ pc[c] = "done"
    /\ orig[c] = CStr(<<"$", "G", "P", "G", "G">>)
    /\ retType[c] = kNMEAMessageUnknown

\* C6: whenever control has left nmea_parse_message (by return or by the
\* process being terminated inside it), the scratch copy the call allocated
\* has been released.
C6_ScratchReleasedOnExit ==
  \A c \in Calls :
    (op[c] = "parse" /\ copy[c] # NULL /\ (pc[c] = "done" \/ proc # "running")) =>
      ~heap[copy[c].idx].alloc

\* C7: the caller's sentence buffer holds what the caller passed, during and
\* after nmea_get_message_type and nmea_parse_message.
C7_CallerBufferUnchanged ==
  \A c \in Calls : callerBuf[c] = orig[c]

\* A decoder has rewritten the scratch copy it was given.
C7_Witness ==
  \E c \in Calls :
    /\ op[c] = "parse" /\ pc[c] = "free"
    /\ invoked[c] # <<>>
    /\ copy[c].region = "heap"
    /\ heap[copy[c].idx].data # strncpy(orig[c], strlen(orig[c]) + CopySlack)
    /\ callerBuf[c] = orig[c]

\* What one call, run alone, returns for a sentence: the record and the
\* content of the error slot.
AloneParse(msg, slot) ==
  LET tag == nmea_get_message_type(msg)
      scratch == strncpy(msg, strlen(msg) + CopySlack)
      dec == SwitchDecoder(tag)
  IN IF dec = "default"
     THEN [rec |-> NullMsg,
           err |-> IF slot THEN kNMEAErrorTypeNotUnderstood ELSE ErrorUntouched]
     ELSE IF DecoderAccepts(scratch)
     THEN [rec |-> Msg(tag, DecoderFields(scratch)), err |-> ErrorUntouched]
     ELSE [rec |-> NullMsg,
           err |-> IF slot THEN DecoderError(dec) ELSE ErrorUntouched]

\* C8: under every interleaving of concurrent calls on distinct sentences,
\* a call that returns returns what it returns when run alone: the same
\* record tag, or no record and the same error code.
C8_ResultIndependentOfInterleaving ==
  \A c \in Calls :
    pc[c] = "done" =>
      IF op[c] = "parse"
      THEN LET alone == AloneParse(orig[c], outError[c] # NULL)
           IN /\ ret[c].null = alone.rec.null
              /\ ret[c].type = alone.rec.type
              /\ errSlot[c] = alone.err
      ELSE retType[c] = nmea_get_message_type(orig[c])

\* With every scratch copy on the heap (no failed malloc), the calls that
\* return do return what they return alone.
ResultIndependentWhenAllocated ==
  (\A d \in Calls : op[d] = "parse" /\ pc[d] # "entry" => copy[d] # NULL) =>
    C8_ResultIndependentOfInterleaving

\* The decoder registered for each tag.
RegisteredDecoder(tag) ==
  CASE tag = kNMEAMessageGGA -> "parse_gga"
    [] tag = kNMEAMessageGSA -> "parse_gsa"
    [] tag = kNMEAMessageGSV -> "parse_gsv"
    [] tag = kNMEAMessageVTG -> "parse_vtg"

\* C9: a call whose tag is GGA, GSA, GSV or VTG invokes one decoder, once:
\* the one registered for the tag, on the scratch copy and the caller's error
\* slot; a call whose tag is Unknown invokes none.
C9_ExactlyOneDecoder ==
  \A c \in Calls :
    op[c] = "parse" =>
      IF Routed(c) /\ t[c] \in Recognized
      THEN /\ Len(invoked[c]) = 1
           /\ invoked[c][1].dec = RegisteredDecoder(t[c])
           /\ invoked[c][1].msg = copy[c]
           /\ invoked[c][1].msg # CallerPtr(c)
           /\ invoked[c][1].outErr = outError[c]
      ELSE invoked[c] = <<>>

\* A GSV call has returned after one invocation of parse_gsv on its
\* malloc'ed copy.
C9_Witness ==
  \E c \in Calls :
    /\ op[c] = "parse" /\ pc[c] = "done"
    /\ copy[c].region = "heap"
    /\ t[c] = kNMEAMessageGSV
    /\ Len(invoked[c]) = 1
    /\ invoked[c][1].dec = "parse_gsv"

\* C10: a sentence beginning with "$GPVTG" is classified VTG.
C10_GPVTGIsVTG ==
  \A c \in Calls :
    (Classified(c) /\ HasPrefix(orig[c], <<"$", "G", "P", "V", "T", "G">>)) =>
      TagOf(c) = kNMEAMessageVTG

====
